---------------------------- MODULE Spec2Model ----------------------------
(***************************************************************************)
(* State-machine model of solver.py: the Solver's construction, its        *)
(* training loop with the periodic side effects, the checkpoint files it   *)
(* writes and reads, and the loss helpers at the top of the file.          *)
(*                                                                         *)
(* A process runs Solver(args) and then train().  The checkpoint directory *)
(* outlives the process: a process may be killed at any point and the same *)
(* command started again.                                                  *)
(***************************************************************************)
EXTENDS Integers, Sequences, FiniteSets, TLC

(***************************************************************************)
(* Bounds of the exploration.                                              *)
(***************************************************************************)
MaxIter == 2        \* max_iter of a run that starts from scratch: 0..MaxIter
MaxStep == 2        \* gather_step, display_step, save_step: 1..MaxStep
NearTag == 1        \* how far before/after the tagged interval a resumed run starts/ends
MaxRuns == 2        \* processes started one after the other on the same directory
MaxEpoch == 1       \* batches per epoch of the data loader: 0..MaxEpoch

(***************************************************************************)
(* Program constants.                                                      *)
(***************************************************************************)
TagInterval == 50000   \* "if self.global_iter%50000 == 0"
None == 0              \* a window field that holds no window identifier

Datasets == {"dsprites", "mnist"}
Models == {"H", "B", "WAE", "VQ"}
Objectives == {"H", "B", "C"}
Filenames == {"last", "50000"}
NoName == "None"       \* args.ckpt_name is None

VARIABLES
    args,          \* the configuration the process was started with
    pc,            \* where the process is
    global_iter,   \* self.global_iter
    net,           \* self.net's parameters: the number of updates that made them
    optim,         \* self.optim's state, likewise
    net_training,  \* self.net.training
    win_recon, win_kld, win_mu, win_var, win_w2_dist,
    disk,          \* the files of self.ckpt_dir, by filename
    pos,           \* batches the current epoch's iterator has yielded
    next_win,      \* the monitoring server's next fresh window identifier
    runs,          \* processes started so far
    start_iter,    \* global_iter when train() was entered
    steps,         \* optimizer updates applied by this call of train()
    events,        \* <<kind, iteration>> of every side effect of this call of train()
    snap,          \* by filename: the Solver's fields when the file was last saved
    tagged,        \* the tagged files this call of train() has finished writing
    loaded_iter,   \* the counter of the checkpoint the constructor loaded, or -1
    prev_exit,     \* how the process before this one ended
    last_op,       \* the operation that led to this state
    loss_call,     \* a call of one of the loss functions: its arguments
    loss_result,   \* and what the call came to
    cap_in,        \* the capacity schedule's inputs: C_max, C_stop_iter, the counter
    C,             \* the capacity computed for them
    C_prev         \* the capacity computed for the counter before

wins == <<win_recon, win_kld, win_mu, win_var, win_w2_dist>>
memory == <<global_iter, net, optim, win_recon, win_kld, win_mu, win_var, win_w2_dist>>
ghost == <<start_iter, steps, events, snap, tagged, loaded_iter, prev_exit>>
solver == <<args, pc, global_iter, net, optim, net_training, win_recon, win_kld,
            win_mu, win_var, win_w2_dist, disk, pos, next_win, runs, start_iter,
            steps, events, snap, tagged, loaded_iter, prev_exit, last_op>>
loss == <<loss_call, loss_result>>
cap == <<cap_in, C, C_prev>>
vars == <<solver, loss, cap>>

(***************************************************************************)
(* Files.  A file is absent, empty (opened for writing and not yet         *)
(* written), or holds the dictionary save_checkpoint builds.               *)
(***************************************************************************)
NoFile == [kind |-> "absent"]
Truncated == [kind |-> "truncated"]

isfile(filename) == disk[filename].kind # "absent"

\* The Solver's fields as one record (what snap keeps).
Fields == [global_iter |-> global_iter, net |-> net, optim |-> optim,
           win_recon |-> win_recon, win_kld |-> win_kld, win_mu |-> win_mu,
           win_var |-> win_var, win_w2_dist |-> win_w2_dist]

NoSnap == [global_iter |-> 0 - 1]

\* save_checkpoint: the dictionary that torch.save writes.
states ==
    [kind |-> "ckpt",
     iter |-> global_iter,
     win_states |-> [recon |-> win_recon, kld |-> win_kld,
                     mu |-> win_mu, var |-> win_var],
     model_states |-> net,
     optim_states |-> optim]

\* str(self.global_iter), for the iterations a tagged checkpoint is written at.
str(i) == CASE i = TagInterval -> "50000"


(***************************************************************************)
(* Solver.__init__: the configuration checks.                              *)
(***************************************************************************)
SupportedDatasets == {"dsprites", "3dchairs", "celeba", "cifar10", "church128",
                      "celebahq128", "bedroom128", "dog128"}

\* The first "raise NotImplementedError".
DatasetRaises == args.dataset \notin SupportedDatasets

\* The second: 'only support model H or B'.
ModelRaises == args.model \notin {"H", "B", "WAE"}

(***************************************************************************)
(* load_checkpoint(filename): the fields after the call.  raised is set    *)
(* when torch.load cannot read the file (it is empty).                     *)
(***************************************************************************)
\* (a load that leaves the counter as it is)
load_checkpoint_keeps_iter(filename) ==
    LET checkpoint == disk[filename] IN
    IF isfile(filename)
    THEN IF checkpoint.kind = "truncated"
         THEN [raised |-> TRUE, found |-> TRUE, fields |-> Fields]
         ELSE [raised |-> FALSE, found |-> TRUE,
               fields |-> [global_iter |-> global_iter,
                           win_recon |-> checkpoint.win_states.recon,
                           win_kld |-> checkpoint.win_states.kld,
                           win_var |-> checkpoint.win_states.var,
                           win_mu |-> checkpoint.win_states.mu,
                           win_w2_dist |-> win_w2_dist,
                           net |-> checkpoint.model_states,
                           optim |-> checkpoint.optim_states]]
    ELSE [raised |-> FALSE, found |-> FALSE, fields |-> Fields]

\* (a load that raises when the file is missing)
load_checkpoint_missing_raises(filename) ==
    LET checkpoint == disk[filename] IN
    IF isfile(filename)
    THEN IF checkpoint.kind = "truncated"
         THEN [raised |-> TRUE, found |-> TRUE, fields |-> Fields]
         ELSE [raised |-> FALSE, found |-> TRUE,
               fields |-> [global_iter |-> checkpoint.iter,
                           win_recon |-> checkpoint.win_states.recon,
                           win_kld |-> checkpoint.win_states.kld,
                           win_var |-> checkpoint.win_states.var,
                           win_mu |-> checkpoint.win_states.mu,
                           win_w2_dist |-> win_w2_dist,
                           net |-> checkpoint.model_states,
                           optim |-> checkpoint.optim_states]]
    ELSE [raised |-> TRUE, found |-> FALSE, fields |-> Fields]

load_checkpoint(filename) ==
    LET checkpoint == disk[filename] IN
    IF isfile(filename)
    THEN IF checkpoint.kind = "truncated"
         THEN [raised |-> TRUE, found |-> TRUE, fields |-> Fields]
         ELSE [raised |-> FALSE, found |-> TRUE,
               fields |-> [global_iter |-> checkpoint.iter,
                           win_recon |-> checkpoint.win_states.recon,
                           win_kld |-> checkpoint.win_states.kld,
                           win_var |-> checkpoint.win_states.var,
                           win_mu |-> checkpoint.win_states.mu,
                           win_w2_dist |-> win_w2_dist,
                           net |-> checkpoint.model_states,
                           optim |-> checkpoint.optim_states]]
    ELSE [raised |-> FALSE, found |-> FALSE, fields |-> Fields]

\* The fields a new Solver has before it loads anything.
Fresh == global_iter = 0 /\ net = 0 /\ optim = 0 /\ win_recon = None
         /\ win_kld = None /\ win_mu = None /\ win_var = None
         /\ win_w2_dist = None

SetFields(f) ==
    /\ global_iter' = f.global_iter
    /\ net' = f.net
    /\ optim' = f.optim
    /\ win_recon' = f.win_recon
    /\ win_kld' = f.win_kld
    /\ win_mu' = f.win_mu
    /\ win_var' = f.win_var
    /\ win_w2_dist' = f.win_w2_dist

(***************************************************************************)
(* Solver(args).  A process at "init" has the fields of a new Solver; the  *)
(* constructor checks the configuration, loads args.ckpt_name when it is   *)
(* given, and takes the test batch from the data loader.                   *)
(***************************************************************************)
Construct ==
    /\ UNCHANGED <<loss, cap>>
    /\ pc = "init"
    /\ UNCHANGED <<args, disk, next_win, runs, pos, start_iter, steps, events,
                   snap, tagged, prev_exit>>
    /\ net_training' = TRUE
    /\ IF DatasetRaises \/ ModelRaises
       THEN /\ pc' = "failed"
            /\ last_op' = "init_config_raised"
            /\ UNCHANGED <<memory, loaded_iter>>
       ELSE IF args.ckpt_name = NoName
       THEN /\ UNCHANGED <<memory, loaded_iter>>
            /\ pc' = IF args.epoch_len = 0 THEN "failed" ELSE "ready"
            /\ last_op' = IF args.epoch_len = 0 THEN "init_no_batch" ELSE "init_fresh"
       ELSE LET r == load_checkpoint(args.ckpt_name) IN
            /\ SetFields(r.fields)
            /\ loaded_iter' = IF r.found /\ ~r.raised
                              THEN disk[args.ckpt_name].iter ELSE 0 - 1
            /\ pc' = IF r.raised \/ args.epoch_len = 0 THEN "failed" ELSE "ready"
            /\ last_op' = IF r.raised THEN "init_load_raised"
                          ELSE IF args.epoch_len = 0 THEN "init_no_batch"
                          ELSE IF r.found THEN "init_loaded"
                          ELSE "init_load_missing"

(***************************************************************************)
(* viz_lines(), called on a constructed Solver by its owner: every window  *)
(* field it plots into holds a window identifier afterwards (a new one     *)
(* from the server when the field was None, its own otherwise).            *)
(***************************************************************************)
NewWins(fs) == Cardinality({i \in 1..Len(fs) : fs[i] = None})

\* The identifier the k-th plotted field gets.
LineWin(fs, k) ==
    IF fs[k] = None
    THEN next_win + Cardinality({i \in 1..(k - 1) : fs[i] = None})
    ELSE fs[k]

viz_lines ==
    /\ UNCHANGED <<loss, cap>>
    /\ pc = "ready"
    /\ UNCHANGED <<args, pc, global_iter, net, optim, disk, runs, ghost, pos>>
    /\ net_training' = TRUE
    /\ last_op' = "viz_lines"
    /\ IF args.model = "WAE"
       THEN LET fs == <<win_recon, win_w2_dist>> IN
            /\ win_recon' = LineWin(fs, 1)
            /\ win_w2_dist' = LineWin(fs, 2)
            /\ next_win' = next_win + NewWins(fs)
            /\ UNCHANGED <<win_kld, win_mu, win_var>>
       ELSE LET fs == <<win_recon, win_kld, win_mu, win_var>> IN
            /\ win_recon' = LineWin(fs, 1)
            /\ win_kld' = LineWin(fs, 2)
            /\ win_mu' = LineWin(fs, 3)
            /\ win_var' = LineWin(fs, 4)
            /\ next_win' = next_win + NewWins(fs)
            /\ UNCHANGED win_w2_dist

(***************************************************************************)
(* train(): the code before the loop.                                      *)
(***************************************************************************)
TrainBegin ==
    /\ UNCHANGED <<loss, cap>>
    /\ pc = "ready"
    /\ pc' = "step"
    /\ net_training' = TRUE
    /\ pos' = 0
    /\ start_iter' = global_iter
    /\ steps' = 0
    /\ events' = {}
    /\ tagged' = {}
    /\ last_op' = "train"
    /\ UNCHANGED <<args, memory, disk, next_win, runs, snap, loaded_iter, prev_exit>>

(***************************************************************************)
(* One pass of the loop body, up to the first file it opens.               *)
(***************************************************************************)
\* "loss" is bound by one of the branches of the if/elif chain.
LossBound ==
    \/ args.model \in {"H", "B"} /\ args.objective \in {"H", "B"}
    \/ args.model = "WAE"

\* viz_reconstruction unpacks three values from self.net(self.test_batch);
\* the WAE family's forward returns two (x_recon, z).
VizReconstructionRaises == args.model = "WAE"

GatherDue(i) == args.viz_on /\ i % args.gather_step = 0
DisplayDue(i) == i % args.display_step = 0
SaveDue(i) == i % args.save_step = 0
TagDue(i) == i % TagInterval = 0
Finished(i) == i >= args.max_iter

\* Where the loop body goes on after the display block, after the 'last'
\* checkpoint, and after the tagged one.
AfterTag(i) == IF Finished(i) THEN "done" ELSE "step"
AfterLast(i) == IF TagDue(i) THEN "save_tag" ELSE AfterTag(i)
AfterDisplay(i) == IF SaveDue(i) THEN "save_last" ELSE AfterLast(i)

\* The side effects of the pass at counter i, in the order the code emits
\* them, as far as the pass gets.
StepEvents(i) ==
    (IF GatherDue(i) THEN {<<"scalar", i>>} ELSE {})
    \cup (IF DisplayDue(i) THEN {<<"console", i>>} ELSE {})
    \cup (IF DisplayDue(i) /\ args.viz_on /\ ~VizReconstructionRaises
          THEN {<<"viz", i>>} ELSE {})

TrainStep ==
    /\ UNCHANGED <<loss, cap>>
    /\ pc = "step"
    /\ pos' = IF pos = args.epoch_len THEN 1 ELSE pos + 1
    /\ global_iter' = global_iter + 1
    /\ UNCHANGED <<args, wins, disk, next_win, runs, start_iter, snap, tagged,
                   loaded_iter, prev_exit>>
    /\ IF ~LossBound
       THEN \* loss.backward() raises: no update
            /\ pc' = "failed"
            /\ last_op' = "step_loss_unbound"
            /\ UNCHANGED <<net, optim, net_training, steps, events>>
       ELSE /\ net' = net + 1
            /\ optim' = optim + 1
            /\ steps' = steps + 1
            /\ events' = events \cup StepEvents(global_iter')
            /\ IF DisplayDue(global_iter') /\ args.viz_on /\ VizReconstructionRaises
               THEN /\ pc' = "failed"
                    /\ net_training' = FALSE
                    /\ last_op' = "step_viz_raised"
               ELSE /\ pc' = AfterDisplay(global_iter')
                    /\ net_training' = TRUE
                    /\ last_op' = "step"

(***************************************************************************)
(* save_checkpoint(filename) in two steps: open(file_path, 'wb+') empties  *)
(* the file, torch.save then writes the dictionary.                        *)
(***************************************************************************)
\* (the tagged checkpoint saved under the rolling name)
Saving_always_last == "last"

\* The file a save in progress writes: 'last', or str(self.global_iter).
Saving == IF pc \in {"save_last", "write_last"} THEN "last" ELSE str(global_iter)

SaveOpen ==
    /\ UNCHANGED <<loss, cap>>
    /\ pc \in {"save_last", "save_tag"}
    /\ disk' = [disk EXCEPT ![Saving] = Truncated]
    /\ pc' = IF pc = "save_last" THEN "write_last" ELSE "write_tag"
    /\ last_op' = "open"
    /\ UNCHANGED <<args, memory, net_training, pos, next_win, runs, ghost>>

\* (a save that advances the counter)
SaveWrite_advances_counter ==
    /\ UNCHANGED <<loss, cap>>
    /\ pc \in {"write_last", "write_tag"}
    /\ disk' = [disk EXCEPT ![Saving] = states]
    /\ snap' = [snap EXCEPT ![Saving] = Fields]
    /\ events' = events \cup {<<IF pc = "write_last" THEN "last" ELSE "tag", global_iter>>}
    /\ tagged' = IF pc = "write_tag" THEN tagged \cup {Saving} ELSE tagged
    /\ pc' = IF pc = "write_last" THEN AfterLast(global_iter) ELSE AfterTag(global_iter)
    /\ last_op' = "write"
    /\ global_iter' = global_iter + 1
    /\ UNCHANGED <<args, net, optim, wins, net_training, pos, next_win, runs,
                   start_iter, steps, loaded_iter, prev_exit>>

SaveWrite ==
    /\ UNCHANGED <<loss, cap>>
    /\ pc \in {"write_last", "write_tag"}
    /\ disk' = [disk EXCEPT ![Saving] = states]
    /\ snap' = [snap EXCEPT ![Saving] = Fields]
    /\ events' = events \cup {<<IF pc = "write_last" THEN "last" ELSE "tag", global_iter>>}
    /\ tagged' = IF pc = "write_tag" THEN tagged \cup {Saving} ELSE tagged
    /\ pc' = IF pc = "write_last" THEN AfterLast(global_iter) ELSE AfterTag(global_iter)
    /\ last_op' = "write"
    /\ UNCHANGED <<args, memory, net_training, pos, next_win, runs, start_iter,
                   steps, loaded_iter, prev_exit>>

(***************************************************************************)
(* The process is killed from outside while it trains; the same command is *)
(* started again on the same checkpoint directory.                         *)
(***************************************************************************)
Training == {"step", "save_last", "write_last", "save_tag", "write_tag"}

\* The process is gone, and what it held in memory with it: the next one
\* starts from the fields of a new Solver.
Exit ==
    /\ SetFields([global_iter |-> 0, net |-> 0, optim |-> 0, win_recon |-> None,
                  win_kld |-> None, win_mu |-> None, win_var |-> None,
                  win_w2_dist |-> None])
    /\ net_training' = TRUE
    /\ pos' = 0
    /\ start_iter' = 0
    /\ steps' = 0
    /\ events' = {}
    /\ tagged' = {}
    /\ loaded_iter' = 0 - 1

Interrupt ==
    /\ UNCHANGED <<loss, cap>>
    /\ pc \in Training
    /\ pc' = "killed"
    /\ Exit
    /\ last_op' = "interrupt"
    /\ UNCHANGED <<args, disk, next_win, runs, snap, prev_exit>>

Restart ==
    /\ UNCHANGED <<loss, cap>>
    /\ pc \in {"killed", "done"}
    /\ runs < MaxRuns
    /\ runs' = runs + 1
    /\ pc' = "init"
    /\ Exit
    /\ prev_exit' = pc
    /\ last_op' = "restart"
    /\ UNCHANGED <<args, disk, next_win, snap>>

(***************************************************************************)
(* The configurations and the checkpoint directory a process starts with.  *)
(***************************************************************************)
Steps == 1..MaxStep

Args(max_iters, names) ==
    [dataset : Datasets, model : Models, objective : Objectives,
     max_iter : max_iters, gather_step : Steps, display_step : Steps,
     save_step : Steps, viz_on : BOOLEAN, ckpt_name : names,
     epoch_len : 0..MaxEpoch]

\* A 'last' checkpoint an earlier run left at counter j.
Left(j) ==
    [kind |-> "ckpt", iter |-> j,
     win_states |-> [recon |-> None, kld |-> None, mu |-> None, var |-> None],
     model_states |-> j, optim_states |-> j]

LeftFields(j) ==
    [global_iter |-> j, net |-> j, optim |-> j, win_recon |-> None,
     win_kld |-> None, win_mu |-> None, win_var |-> None, win_w2_dist |-> None]

\* No loss function is being called, no capacity being computed.
NoLoss == loss_call = [fn |-> "none"] /\ loss_result = [outcome |-> "none"]
NoCap == cap_in = [C_max |-> 0] /\ C = [m |-> 0, e |-> 0] /\ C_prev = [m |-> 0, e |-> 0]

Init ==
    /\ NoLoss
    /\ NoCap
    /\ pc = "init"
    /\ Fresh
    /\ net_training = TRUE
    /\ pos = 0
    /\ next_win = 1
    /\ runs = 1
    /\ start_iter = 0
    /\ steps = 0
    /\ events = {}
    /\ tagged = {}
    /\ loaded_iter = 0 - 1
    /\ prev_exit = "none"
    /\ last_op = "start"
    /\ \/ /\ args \in Args(0..MaxIter, {NoName, "last"})
          /\ disk = [f \in Filenames |-> NoFile]
          /\ snap = [f \in Filenames |-> NoSnap]
       \/ \E j \in (TagInterval - NearTag)..TagInterval :
          /\ args \in Args((TagInterval - 1)..(TagInterval + NearTag), {"last"})
          /\ disk = [f \in Filenames |-> IF f = "last" THEN Left(j) ELSE NoFile]
          /\ snap = [f \in Filenames |-> IF f = "last" THEN LeftFields(j) ELSE NoSnap]

Next ==
    \/ Construct
    \/ viz_lines
    \/ TrainBegin
    \/ TrainStep
    \/ SaveOpen
    \/ SaveWrite
    \/ Interrupt
    \/ Restart

Spec == Init /\ [][Next]_vars

(***************************************************************************)
(* The process left alone: nobody kills it, and it goes on executing.  The *)
(* program is one sequential thread, so a step that can be taken is taken: *)
(* the constructor returns, its owner calls train(), every pass of the     *)
(* loop and every save that has begun goes on to its next statement.       *)
(***************************************************************************)
NextLive ==
    \/ Construct
    \/ TrainBegin
    \/ TrainStep
    \/ SaveOpen
    \/ SaveWrite

Fairness ==
    /\ WF_vars(Construct)
    /\ WF_vars(TrainBegin)
    /\ WF_vars(TrainStep)
    /\ WF_vars(SaveOpen)
    /\ WF_vars(SaveWrite)

SpecLive == Init /\ [][NextLive]_vars /\ Fairness

(***************************************************************************)
(* A process that is not running: the state of the Solver's variables in   *)
(* the specifications of the loss functions and of the capacity schedule.  *)
(***************************************************************************)
Off ==
    /\ pc = "off"
    /\ args = [dataset |-> "dsprites", model |-> "H", objective |-> "B",
               max_iter |-> 0, gather_step |-> 1, display_step |-> 1,
               save_step |-> 1, viz_on |-> FALSE, ckpt_name |-> NoName,
               epoch_len |-> 1]
    /\ Fresh
    /\ net_training = TRUE
    /\ disk = [f \in Filenames |-> NoFile]
    /\ snap = [f \in Filenames |-> NoSnap]
    /\ pos = 0
    /\ next_win = 1
    /\ runs = 0
    /\ start_iter = 0
    /\ steps = 0
    /\ events = {}
    /\ tagged = {}
    /\ loaded_iter = 0 - 1
    /\ prev_exit = "none"
    /\ last_op = "start"

(***************************************************************************)
(* reconstruction_loss(x, x_recon, distribution).  x has batch_size rows   *)
(* of numel values each.  The loss that is returned is kept as the         *)
(* function that computes it, the number of terms it sums and the divisor. *)
(***************************************************************************)
MaxBatch == 3
MaxNumel == 3
Distributions == {"bernoulli", "gaussian", "Bernoulli", "laplace", "categorical"}

Returned(f, terms, divisor) ==
    [outcome |-> "return", value |-> [loss |-> f, terms |-> terms, div |-> divisor]]
Raised(error) ==
    [outcome |-> "raise", value |-> [loss |-> error, terms |-> 0, div |-> 0]]

reconstruction_loss(batch_size, numel, distribution) ==
    IF batch_size = 0
    THEN Raised("AssertionError")
    ELSE IF distribution = "bernoulli"
    THEN Returned("binary_cross_entropy_with_logits", batch_size * numel, batch_size)
    ELSE IF distribution = "gaussian"
    THEN Returned("mse_loss_of_sigmoid", batch_size * numel, batch_size)
    ELSE Returned("None", 0, 0)

CallReconstructionLoss ==
    /\ loss_call.fn = "reconstruction_loss"
    /\ loss_result.outcome = "none"
    /\ loss_result' = reconstruction_loss(loss_call.batch_size, loss_call.numel,
                                          loss_call.distribution)
    /\ UNCHANGED <<loss_call, solver, cap>>

(***************************************************************************)
(* kl_divergence(mu, logvar).  mu and logvar have batch_size rows of z_dim *)
(* values (4-dimensional ones are viewed as 2-dimensional first).  What is *)
(* returned is the triple total_kld, dimension_wise_kld, mean_kld.         *)
(***************************************************************************)
MaxZDim == 3

kl_divergence(batch_size, z_dim) ==
    IF batch_size = 0
    THEN Raised("AssertionError")
    ELSE Returned("total_kld, dimension_wise_kld, mean_kld", batch_size * z_dim,
                  batch_size)

CallKlDivergence ==
    /\ loss_call.fn = "kl_divergence"
    /\ loss_result.outcome = "none"
    /\ loss_result' = kl_divergence(loss_call.batch_size, loss_call.z_dim)
    /\ UNCHANGED <<loss_call, solver, cap>>

(***************************************************************************)
(* Wasserstein2_dist(z).  z has N rows of ndim values.  The function does  *)
(* not look at N: it hands N-row arrays to ot.dist and ot.emd.  With N = 0 *)
(* the library either raises on the empty arrays or returns an empty plan, *)
(* and then the mean of no distances, nan, is returned.                    *)
(***************************************************************************)
Wasserstein2_dist(N, ndim, ot_raises) ==
    IF N = 0
    THEN IF ot_raises
         THEN Raised("ot")
         ELSE Returned("nan", 0, 0)
    ELSE Returned("w2", N * ndim, N)

CallWasserstein2Dist ==
    /\ loss_call.fn = "Wasserstein2_dist"
    /\ loss_result.outcome = "none"
    /\ loss_result' = Wasserstein2_dist(loss_call.N, loss_call.ndim,
                                        loss_call.ot_raises)
    /\ UNCHANGED <<loss_call, solver, cap>>

InitLoss ==
    /\ Off
    /\ NoCap
    /\ \/ loss_call \in [fn : {"reconstruction_loss"}, batch_size : 0..MaxBatch,
                         numel : 1..MaxNumel, distribution : Distributions]
       \/ loss_call \in [fn : {"kl_divergence"}, batch_size : 0..MaxBatch,
                         z_dim : 1..MaxZDim]
       \/ loss_call \in [fn : {"Wasserstein2_dist"}, N : 0..MaxBatch,
                         ndim : 1..MaxZDim, ot_raises : BOOLEAN]
    /\ loss_result = [outcome |-> "none"]

NextLoss ==
    \/ CallReconstructionLoss
    \/ CallKlDivergence
    \/ CallWasserstein2Dist

SpecLoss == InitLoss /\ [][NextLoss]_vars

(***************************************************************************)
(* The capacity of the B objective:                                        *)
(*   C = torch.clamp(self.C_max/self.C_stop_iter*self.global_iter,         *)
(*                   0, self.C_max.item())                                 *)
(* self.C_max is a torch.FloatTensor, so every operation rounds its result *)
(* to a float32: 24 significant bits, to nearest, ties to even.  A float   *)
(* is kept as [m, e], standing for m * 2^e with m odd (or 0).              *)
(***************************************************************************)
Significand == 24      \* bits of a float32 significand

Zero == [m |-> 0, e |-> 0]
One == [m |-> 1, e |-> 0]

RECURSIVE TrailingZeros(_)
TrailingZeros(n) == IF n % 2 = 1 THEN 0 ELSE 1 + TrailingZeros(n \div 2)

Norm(n, e) ==
    IF n = 0 THEN Zero
    ELSE LET t == TrailingZeros(n) IN [m |-> n \div 2^t, e |-> e + t]

RECURSIVE BitLength(_)
BitLength(n) == IF n = 0 THEN 0 ELSE 1 + BitLength(n \div 2)

\* n * 2^e rounded to a float32.
Round(n, e) ==
    LET s == BitLength(n) - Significand IN
    IF s <= 0 THEN Norm(n, e)
    ELSE LET q == n \div 2^s
             r == n % 2^s
             h == 2^(s - 1)
             up == r > h \/ (r = h /\ q % 2 = 1)
         IN Norm(IF up THEN q + 1 ELSE q, e + s)

\* a * b, rounded.
Mul(a, b) == Round(a.m * b.m, a.e + b.e)

\* The least k with n * 2^k >= lim.
RECURSIVE Scale(_, _)
Scale(n, lim) == IF n >= lim THEN 0 ELSE 1 + Scale(2 * n, lim)

\* a / b, rounded: the quotient to 24 bits and the remainder decide.
Div(a, b) ==
    IF a.m = 0 THEN Zero
    ELSE LET k == Scale(a.m, b.m * 2^(Significand - 1))
             n == a.m * 2^k
             q == n \div b.m
             r == n % b.m
             up == 2 * r > b.m \/ (2 * r = b.m /\ q % 2 = 1)
         IN Norm(IF up THEN q + 1 ELSE q, a.e - b.e - k)

\* a <= b, for a, b >= 0.
LE(a, b) ==
    IF a.m = 0 THEN TRUE
    ELSE IF b.m = 0 THEN FALSE
    ELSE LET d == a.e - b.e IN
         IF d >= 0
         THEN d <= 30 /\ a.m <= b.m \div 2^d
         ELSE 0 - d > 30 \/ (a.m + 2^(0 - d) - 1) \div 2^(0 - d) <= b.m

\* torch.clamp(v, lo, hi)
clamp(v, lo, hi) ==
    LET u == IF LE(v, lo) THEN lo ELSE v IN
    IF LE(hi, u) THEN hi ELSE u

\* self.C_max / self.C_stop_iter: the tensor divided by a Python number.
\* The kernel either divides, or multiplies by the rounded reciprocal of
\* the number (what the CUDA kernel does for a scalar divisor).
Quotient(C_max, C_stop_iter, reciprocal) ==
    IF reciprocal
    THEN Mul(Round(C_max, 0), Div(One, Round(C_stop_iter, 0)))
    ELSE Div(Round(C_max, 0), Round(C_stop_iter, 0))

\* (the schedule without its ceiling)
capacity_unclamped(C_max, C_stop_iter, reciprocal, i) ==
    Mul(Quotient(C_max, C_stop_iter, reciprocal), Round(i, 0))

capacity(C_max, C_stop_iter, reciprocal, i) ==
    clamp(Mul(Quotient(C_max, C_stop_iter, reciprocal), Round(i, 0)),
          Zero, Round(C_max, 0))

MaxCapIter == 42       \* the counter runs over 0..MaxCapIter, C_stop_iter below it
CapMaxima == {0, 1, 3, 25}

\* The next pass of the loop: the counter goes up, C is computed anew.
CapacityStep ==
    /\ cap_in.global_iter < MaxCapIter
    /\ cap_in' = [cap_in EXCEPT !.global_iter = @ + 1]
    /\ C_prev' = C
    /\ C' = capacity(cap_in.C_max, cap_in.C_stop_iter, cap_in.reciprocal,
                     cap_in.global_iter + 1)
    /\ UNCHANGED <<solver, loss>>

InitCap ==
    /\ Off
    /\ NoLoss
    /\ cap_in \in [C_max : CapMaxima, C_stop_iter : 1..(MaxCapIter - 1),
                   reciprocal : BOOLEAN, global_iter : {0}]
    /\ C = capacity(cap_in.C_max, cap_in.C_stop_iter, cap_in.reciprocal, 0)
    /\ C_prev = C

NextCap == CapacityStep

SpecCap == InitCap /\ [][NextCap]_vars

(***************************************************************************)
(* The claims.                                                             *)
(***************************************************************************)
Kinds == {"scalar", "console", "viz", "last", "tag"}
Count(kind) == Cardinality({e \in events : e[1] = kind})

\* C1: train() returns with global_iter = max_iter whatever counter it
\* started from, and no training step runs from a counter that is already
\* >= max_iter (the last step ran from global_iter - 1).
C1_ExitsAtMaxIter ==
    /\ pc = "done" => global_iter = args.max_iter
    /\ steps >= 1 => global_iter - 1 < args.max_iter

\* C2: a run from scratch with max_iter = K has, when train() returns,
\* emitted K \div cadence events of each kind (the scalar summaries and the
\* visualization of a Solver whose viz_on is set), and has written the
\* 'last' checkpoint at K when save_step divides K.
C2_EventCounts ==
    pc = "done" /\ start_iter = 0 =>
        /\ args.viz_on => Count("scalar") = args.max_iter \div args.gather_step
        /\ Count("console") = args.max_iter \div args.display_step
        /\ args.viz_on => Count("viz") = args.max_iter \div args.display_step
        /\ Count("last") = args.max_iter \div args.save_step
        /\ args.max_iter % args.save_step = 0 =>
               Cardinality({e \in events : e = <<"last", args.max_iter>>}) = 1

\* C3: right after load_checkpoint has read a complete file, every field is
\* what it was when that file was saved: the counter, the parameters, the
\* optimizer state and the five window identifiers.
C3_RoundTrip ==
    last_op = "init_loaded" => Fields = snap[args.ckpt_name]

\* The side effects an uninterrupted run emits at the iterations a+1..b.
Due(kind, i) ==
    CASE kind = "scalar" -> args.viz_on /\ i % args.gather_step = 0
      [] kind = "console" -> i % args.display_step = 0
      [] kind = "viz" -> args.viz_on /\ i % args.display_step = 0
      [] kind = "last" -> i % args.save_step = 0
      [] kind = "tag" -> i % 50000 = 0
RunLog(a, b) == {e \in Kinds \X ((a + 1)..b) : Due(e[1], e[2])}

\* C4: a run that starts below max_iter, from scratch or from a loaded
\* checkpoint of counter j, has between two passes of the loop emitted
\* exactly the side effects of the iterations after its start, at their own
\* iteration numbers; a resumed run starts at j (its first pass has counter
\* j + 1), and both end with the counter at max_iter.  So the resumed run
\* is the uninterrupted run's part after j.
C4_ResumeEquivalence ==
    pc \in {"step", "done"} /\ start_iter < args.max_iter =>
        /\ start_iter = IF loaded_iter >= 0 THEN loaded_iter ELSE 0
        /\ global_iter = start_iter + steps
        /\ events = RunLog(start_iter, global_iter)
        /\ global_iter <= args.max_iter
        /\ pc = "done" => global_iter = args.max_iter

\* C4's case: a run was killed after it had written a checkpoint at j, the
\* next loaded it and trained on to max_iter.
C4_Witness ==
    /\ pc = "done"
    /\ prev_exit = "killed"
    /\ loaded_iter >= 1
    /\ loaded_iter < args.max_iter
    /\ args.max_iter <= MaxIter
    /\ steps >= 1
    /\ global_iter = args.max_iter
    /\ events # {}

\* C5: a constructor that is asked to load a file that does not exist goes
\* on to a constructed Solver with every field as it was, the counter at 0.
C5_MissingCheckpointNonFatal ==
    [][(/\ pc = "init"
        /\ pc' # "init"
        /\ args.dataset \in SupportedDatasets
        /\ args.model \in {"H", "B", "WAE"}
        /\ args.epoch_len > 0
        /\ args.ckpt_name # NoName
        /\ disk[args.ckpt_name].kind = "absent")
       => /\ pc' = "ready"
          /\ memory' = memory
          /\ global_iter' = 0
          /\ disk' = disk]_vars

\* C5's case: the constructor was asked for 'last', which does not exist.
C5_Witness ==
    /\ last_op = "init_load_missing"
    /\ pc = "ready"
    /\ args.ckpt_name = "last"
    /\ disk["last"].kind = "absent"
    /\ global_iter = 0

\* C6: whenever the process is killed, every checkpoint file is a complete
\* checkpoint (the one before the save or the new one), never an empty one.
C6_SaveAtomic ==
    pc = "killed" => \A f \in Filenames : disk[f].kind # "truncated"

\* C7: with an unsupported dataset, model family or objective the
\* constructor raises: the process never gets past it.
C7_UnsupportedFatal ==
    (\/ args.dataset \notin SupportedDatasets
     \/ args.model \notin {"H", "B", "WAE"}
     \/ args.objective \notin {"H", "B"})
    => /\ pc \in {"init", "failed"}
       /\ last_op \in {"start", "restart", "init_config_raised", "init_load_raised",
                       "init_no_batch"}
       /\ steps = 0

\* C8: reconstruction_loss called with a label other than 'bernoulli' and
\* 'gaussian' raises; it returns nothing to its caller.
C8_UnsupportedLabelRaises ==
    (/\ loss_call.fn = "reconstruction_loss"
     /\ loss_result.outcome # "none"
     /\ loss_call.distribution \notin {"bernoulli", "gaussian"})
    => loss_result.outcome = "raise"

IsPowerOfTwo(n) == \E k \in 0..30 : n = 2^k

\* C9 as stated: the capacity is 0 at counter 0, never decreases, lies in
\* [0, C_max], and is C_max at every counter >= C_stop_iter.
C9_CapacitySchedule ==
    /\ cap_in.global_iter = 0 => C = Zero
    /\ LE(C_prev, C)
    /\ LE(Zero, C) /\ LE(C, Round(cap_in.C_max, 0))
    /\ cap_in.global_iter >= cap_in.C_stop_iter => C = Round(cap_in.C_max, 0)

\* C9 as amended: at a counter >= C_stop_iter the capacity is C_max up to
\* the float32 rounding of the quotient and the product (it is not below
\* C_max * (1 - 2^-22)), and exactly C_max when C_stop_iter is a power of
\* two; the rest as stated.
C9_CapacityScheduleFloat ==
    /\ cap_in.global_iter = 0 => C = Zero
    /\ LE(C_prev, C)
    /\ LE(Zero, C) /\ LE(C, Round(cap_in.C_max, 0))
    /\ cap_in.global_iter >= cap_in.C_stop_iter =>
           /\ LE([m |-> cap_in.C_max * (2^22 - 1), e |-> 0 - 22], C)
           /\ IsPowerOfTwo(cap_in.C_stop_iter) => C = Round(cap_in.C_max, 0)

\* C9's case: the ramp of C_max = 25 over 3 iterations has just reached
\* its ceiling.
C9_Witness ==
    /\ cap_in.C_max = 25
    /\ cap_in.C_stop_iter = 3
    /\ cap_in.global_iter = 3
    /\ C = Round(25, 0)
    /\ ~LE(C, C_prev)

\* The iteration a tagged file is named after.
TagNumber(f) == CASE f = "50000" -> 50000
                  [] OTHER -> 0 - 1

C11_ZeroBatchFatal ==
    (/\ loss_result.outcome # "none"
     /\ \/ loss_call.fn \in {"reconstruction_loss", "kl_divergence"}
           /\ loss_call.batch_size = 0
        \/ loss_call.fn = "Wasserstein2_dist" /\ loss_call.N = 0)
    => loss_result.outcome = "raise"

\* C12: with a supported configuration, once train() has entered its loop
\* it eventually leaves it with the counter at max_iter or beyond, whatever
\* max_iter and the epoch length.
C12_TrainTerminates ==
    (/\ pc = "step"
     /\ args.model \in {"H", "B", "WAE"}
     /\ args.objective \in {"H", "B"})
    ~> (pc = "done" /\ global_iter >= args.max_iter)

\* C13: while train() runs, only the statement at the top of a pass writes
\* the counter, and it adds exactly 1; a pass that gets as far as the
\* optimizer applies exactly one update (the only pass that does not is the
\* one that raises before it, for want of a loss); an update never happens
\* without its increment; and the passes' side effects and the saves leave
\* the counter alone.
C13_SingleWriter ==
    [][(pc \in Training /\ pc' \in Training \cup {"done", "failed"}) =>
         /\ global_iter' \in {global_iter, global_iter + 1}
         /\ pc = "step" => global_iter' = global_iter + 1
         /\ pc # "step" => global_iter' = global_iter /\ optim' = optim /\ net' = net
         /\ (pc = "step" /\ last_op' # "step_loss_unbound") =>
                /\ optim' = optim + 1
                /\ net' = net + 1
                /\ steps' = steps + 1
                /\ events' \ events \subseteq Kinds \X {global_iter'}
         /\ optim' # optim => optim' = optim + 1 /\ global_iter' = global_iter + 1]_vars

\* C13's case: two passes, each with every periodic side effect and a save,
\* have left the counter two above where train() found it.
C13_Witness ==
    /\ pc = "done"
    /\ steps = 2
    /\ global_iter = start_iter + 2
    /\ optim = global_iter
    /\ \A k \in {"scalar", "console", "viz", "last"} :
           \A i \in {global_iter - 1, global_iter} : <<k, i>> \in events

\* C14: with a supported model family and objective and viz_on set, no
\* display step aborts the run, and between passes the network is in train mode.
C14_VizNeverAborts ==
    (/\ args.viz_on
     /\ args.model \in {"H", "B", "WAE"}
     /\ args.objective \in {"H", "B"}) =>
        /\ last_op # "step_viz_raised"
        /\ net_training = TRUE

=============================================================================
